---- MODULE Spec2Model ----
(***************************************************************************)
(* A model of rdf-tui: main (src/src/main.rs), the terminal set-up and     *)
(* tear-down (src/src/util.rs) and the application: session loop, key     *)
(* handling, query buffer and rendering (src/src/app.rs).                  *)
(*                                                                         *)
(* The SPARQL engine, the file system and the terminal backend are the     *)
(* environment: every call into them is a choice among the results the     *)
(* call can give (Ok or Err, and for a query the shape of the result).     *)
(***************************************************************************)
EXTENDS Integers, Sequences, FiniteSets, TLC

VARIABLES
    pc,      \* where main is: setup, new, load, draw, handle_event, restore, exit_*
    path,    \* Args.path: TRUE when a path argument was given
    term,    \* the terminal: alternate screen, raw mode, panic hook, restore calls
    app,     \* the App: store, mode, query (string, height), quitting
    err,     \* the error main returned with, "none" while there is none
    frame,   \* the frame last drawn on the terminal
    outcome, \* what store.query gave render_browser in this iteration of run
    event,   \* the input handle_event received in this iteration of run
    typed,   \* number of characters pushed so far (bounds the model)
    iter,    \* number of iterations of run's loop started (bounds the model)
    tabs     \* the current run of consecutive Tab key-presses

vars == <<pc, path, term, app, err, frame, outcome, event, typed, iter, tabs>>

----------------------------------------------------------------------------
(* Bounds of the model *)

\* at most this many characters are pushed to the query in one run
MaxTyped == 2

\* the engine yields at most this many solutions for one query
MaxRows == 2

\* Spec follows run's loop for at most this many iterations
MaxIter == 3

----------------------------------------------------------------------------
(* Constants of the program *)

\* Query.height is a u16
U16 == 65536

\* Query::new: height 3
DefaultHeight == 3

\* Query::new: "SELECT ?s ?p ?o WHERE { ?s ?p ?o }"
DefaultText == "SELECT ?s ?p ?o WHERE { ?s ?p ?o }"

NewLine == "\n"

----------------------------------------------------------------------------
(* Option<char> *)

None == [some |-> FALSE, val |-> ""]

Some(c) == [some |-> TRUE, val |-> c]

----------------------------------------------------------------------------
(* Query *)

QueryNew == [string |-> DefaultText, height |-> DefaultHeight]

\* self.height += 1 on a u16 that is already 65535: a panic in a build with
\* overflow checks, a wrap to 0 in a build without
PushOverflows(q, ch) == ch = NewLine /\ q.height + 1 >= U16

\* Push with the newline test lost: every character adds a line
PushCountsEveryChar(q, ch) ==
    [string |-> Append(q.string, ch), height |-> (q.height + 1) % U16]

Push(q, ch) ==
    [string |-> Append(q.string, ch),
     height |-> IF ch = NewLine THEN (q.height + 1) % U16 ELSE q.height]

\* Pop that takes the absence of a character for a newline
PopDecrementsOnEmpty(q) ==
    IF q.string = ""
    THEN [ch |-> None, query |-> [q EXCEPT !.height = (@ - 1) % U16]]
    ELSE LET ch == SubSeq(q.string, Len(q.string), Len(q.string))
         IN  [ch    |-> Some(ch),
              query |-> [string |-> SubSeq(q.string, 1, Len(q.string) - 1),
                         height |-> IF ch = NewLine
                                    THEN (q.height - 1) % U16
                                    ELSE q.height]]

Pop(q) ==
    IF q.string = ""
    THEN [ch |-> None, query |-> q]
    ELSE LET ch == SubSeq(q.string, Len(q.string), Len(q.string))
         IN  [ch    |-> Some(ch),
              query |-> [string |-> SubSeq(q.string, 1, Len(q.string) - 1),
                         height |-> IF ch = NewLine
                                    THEN (q.height - 1) % U16
                                    ELSE q.height]]

----------------------------------------------------------------------------
(* App: construction, key handling *)

\* the App before App::new has run
NoApp ==
    [store |-> "none", mode |-> "none",
     query |-> [string |-> "", height |-> 0], quitting |-> FALSE]

\* App::new starting in Query mode
NewAppInQueryMode ==
    [store |-> "empty", mode |-> "Query", query |-> QueryNew, quitting |-> FALSE]

\* App::new
NewApp ==
    [store |-> "empty", mode |-> "Browse", query |-> QueryNew, quitting |-> FALSE]

\* SwitchMode that always enters Query mode
SwitchModeToQuery(a) == [a EXCEPT !.mode = "Query"]

SwitchMode(a) ==
    IF a.mode = "Query"
    THEN [a EXCEPT !.mode = "Browse"]
    ELSE [a EXCEPT !.mode = "Query"]

Quit(a) == [a EXCEPT !.quitting = TRUE]

\* KeyCode
Code(tag, ch) == [tag |-> tag, ch |-> ch]

Chars == {"q", "a"}

KeyCodes ==
    {Code("Backspace", ""), Code("Enter", ""), Code("Tab", ""), Code("Esc", "")}
        \cup {Code("Char", c) : c \in Chars}

KeyEventKinds == {"Press", "Repeat", "Release"}

\* HandleKeyCodeInQueryMode with the quit key of Browse mode
HandleKeyCodeInQueryModeQuits(a, code) ==
    CASE code.tag = "Backspace" -> [a EXCEPT !.query = Pop(a.query).query]
      [] code.tag = "Enter"     -> [a EXCEPT !.query = Push(a.query, NewLine)]
      [] code.tag = "Tab"       -> SwitchMode(a)
      [] code.tag = "Char" /\ code.ch = "q" -> Quit(a)
      [] code.tag = "Char"      -> [a EXCEPT !.query = Push(a.query, code.ch)]
      [] OTHER                  -> a

\* handle_key_code_in_query_mode without the arm for Enter
HandleKeyCodeInQueryModeIgnoresEnter(a, code) ==
    CASE code.tag = "Backspace" -> [a EXCEPT !.query = Pop(a.query).query]
      [] code.tag = "Tab"       -> SwitchMode(a)
      [] code.tag = "Char"      -> [a EXCEPT !.query = Push(a.query, code.ch)]
      [] OTHER                  -> a

HandleKeyCodeInQueryMode(a, code) ==
    CASE code.tag = "Backspace" -> [a EXCEPT !.query = Pop(a.query).query]
      [] code.tag = "Enter"     -> [a EXCEPT !.query = Push(a.query, NewLine)]
      [] code.tag = "Tab"       -> SwitchMode(a)
      [] code.tag = "Char"      -> [a EXCEPT !.query = Push(a.query, code.ch)]
      [] OTHER                  -> a

\* handle_key_code_in_browse_mode where Enter switches the mode too
HandleKeyCodeInBrowseModeEnterSwitches(a, code) ==
    CASE code.tag \in {"Tab", "Enter"}        -> SwitchMode(a)
      [] code.tag = "Char" /\ code.ch = "q"   -> Quit(a)
      [] OTHER                                -> a

HandleKeyCodeInBrowseMode(a, code) ==
    CASE code.tag = "Tab"                     -> SwitchMode(a)
      [] code.tag = "Char" /\ code.ch = "q"   -> Quit(a)
      [] OTHER                                -> a

\* HandleKey without the test of the event's kind
HandleKeyAnyKind(a, key) ==
    IF a.mode = "Query"
    THEN HandleKeyCodeInQueryMode(a, key.code)
    ELSE HandleKeyCodeInBrowseMode(a, key.code)

HandleKey(a, key) ==
    IF key.kind # "Press"
    THEN a
    ELSE IF a.mode = "Query"
         THEN HandleKeyCodeInQueryMode(a, key.code)
         ELSE HandleKeyCodeInBrowseMode(a, key.code)

\* the character handle_key pushes to the query for this key, if it pushes one
PushedChar(a, key) ==
    IF key.kind = "Press" /\ a.mode = "Query" /\ key.code.tag = "Enter"
    THEN Some(NewLine)
    ELSE IF key.kind = "Press" /\ a.mode = "Query" /\ key.code.tag = "Char"
         THEN Some(key.code.ch)
         ELSE None

----------------------------------------------------------------------------
(* Input events: what event::poll and event::read give handle_event *)

NoKey == [kind |-> "", code |-> Code("", "")]

\* no input received yet in this iteration
NoEvent == [type |-> "none", key |-> NoKey]

\* event::poll returned Err
PollErr == [type |-> "PollErr", key |-> NoKey]

\* event::poll returned Ok(false): no event within 16 ms
Timeout == [type |-> "Timeout", key |-> NoKey]

\* event::poll returned Ok(true) and event::read returned Err
ReadErr == [type |-> "ReadErr", key |-> NoKey]

\* an event that is not Event::Key (resize, mouse, focus, paste)
OtherEvent == [type |-> "Other", key |-> NoKey]

KeyEvent(kind, code) == [type |-> "Key", key |-> [kind |-> kind, code |-> code]]

\* the key codes tried in key events that are no press
OtherKindCodes == {Code("Tab", ""), Code("Char", "q")}

KeyEvents ==
    {KeyEvent("Press", c) : c \in KeyCodes}
        \cup {KeyEvent(k, c) : k \in KeyEventKinds \ {"Press"}, c \in OtherKindCodes}

Events == {PollErr, Timeout, ReadErr, OtherEvent} \cup KeyEvents

\* handle_event, on the App: only Event::Key reaches handle_key
HandleEventApp(a, ev) ==
    IF ev.type = "Key" THEN HandleKey(a, ev.key) ELSE a

----------------------------------------------------------------------------
(* The engine: what store.query gives render_browser *)

Unbound == "UNDEF"

Binding(s, p) == [s |-> s, p |-> p]

\* an item the solutions iterator yields: Ok(solution) or Err
OkSolution(b) == [ok |-> TRUE, b |-> b]

ErrSolution == [ok |-> FALSE, b |-> Binding(Unbound, Unbound)]

\* an error, a solution that binds both variables, one that binds only ?s
SolutionItems ==
    {ErrSolution,
     OkSolution(Binding("a", "b")),
     OkSolution(Binding("c", Unbound))}

SolutionSeqs == UNION {[1..n -> SolutionItems] : n \in 0..MaxRows}

VariableLists == {<<"s">>, <<"s", "p">>}

\* no query made yet in this iteration
NoOutcome == [tag |-> "none", variables |-> << >>, solutions |-> << >>]

QueryErr == [tag |-> "Err", variables |-> << >>, solutions |-> << >>]

QueryBoolean == [tag |-> "Boolean", variables |-> << >>, solutions |-> << >>]

QueryGraph == [tag |-> "Graph", variables |-> << >>, solutions |-> << >>]

QuerySolutions(vs, ss) == [tag |-> "Solutions", variables |-> vs, solutions |-> ss]

QueryOutcomes ==
    {QueryErr, QueryBoolean, QueryGraph}
        \cup {QuerySolutions(vs, ss) : vs \in VariableLists, ss \in SolutionSeqs}

\* QuerySolution::get
Get(b, v) == IF b[v] = Unbound THEN None ELSE Some(b[v])

\* Variable's and Term's to_string
VariableToString(v) == "?" \o v

TermToString(t) == "<" \o t \o ">"

----------------------------------------------------------------------------
(* Rendering *)

GetBrowserStyle(a) == IF a.mode = "Browse" THEN "green" ELSE "default"

\* get_query_style that highlights in both modes
GetQueryStyleAlwaysGreen(a) == "green"

GetQueryStyle(a) == IF a.mode = "Query" THEN "green" ELSE "default"

RenderQuery(a) ==
    [title |-> "Query", text |-> a.query.string, style |-> GetQueryStyle(a)]

\* s.get(v).unwrap() panics for a solution that leaves a variable unbound
RowPanics(variables, b) ==
    \E j \in 1..Len(variables) : ~Get(b, variables[j]).some

RowOf(variables, b) ==
    [j \in 1..Len(variables) |-> TermToString(Get(b, variables[j]).val)]

\* the for loop over the solutions: a row for each Ok item, in order
RECURSIVE Rows(_, _)
Rows(variables, solutions) ==
    IF solutions = << >>
    THEN << >>
    ELSE LET s == Head(solutions)
             rest == Rows(variables, Tail(solutions))
         IN  IF s.ok THEN <<RowOf(variables, s.b)>> \o rest ELSE rest

\* render_browser unwrapping the query's result
RenderBrowserPanicsOnErr(o) ==
    \/ o.tag = "Err"
    \/ /\ o.tag = "Solutions"
       /\ \E i \in 1..Len(o.solutions) :
             o.solutions[i].ok /\ RowPanics(o.variables, o.solutions[i].b)

\* render_browser with a default in place of the missing binding
RenderBrowserNeverPanics(o) == FALSE

\* render_browser's s.get(v).unwrap() panics: an Ok solution lacks a variable
RenderBrowserPanics(o) ==
    /\ o.tag = "Solutions"
    /\ \E i \in 1..Len(o.solutions) :
          o.solutions[i].ok /\ RowPanics(o.variables, o.solutions[i].b)

\* render_browser showing NO RESULT for solutions without rows
RenderBrowserEmptyIsNoResult(a, o) ==
    IF o.tag = "Solutions" /\ Rows(o.variables, o.solutions) # << >>
    THEN [title  |-> "Explore", style |-> GetBrowserStyle(a),
          view   |-> "Table", text |-> "",
          widths |-> Len(o.variables),
          header |-> [j \in 1..Len(o.variables) |-> VariableToString(o.variables[j])],
          rows   |-> Rows(o.variables, o.solutions)]
    ELSE [title  |-> "Explore", style |-> GetBrowserStyle(a),
          view   |-> "Paragraph", text |-> "NO RESULT",
          widths |-> 0, header |-> << >>, rows |-> << >>]

RenderBrowser(a, o) ==
    IF o.tag = "Solutions"
    THEN [title  |-> "Explore", style |-> GetBrowserStyle(a),
          view   |-> "Table", text |-> "",
          widths |-> Len(o.variables),
          header |-> [j \in 1..Len(o.variables) |-> VariableToString(o.variables[j])],
          rows   |-> Rows(o.variables, o.solutions)]
    ELSE [title  |-> "Explore", style |-> GetBrowserStyle(a),
          view   |-> "Paragraph", text |-> "NO RESULT",
          widths |-> 0, header |-> << >>, rows |-> << >>]

\* nothing drawn yet
NoFrame ==
    [height    |-> 0,
     query     |-> [title |-> "", text |-> "", style |-> ""],
     browser   |-> [title |-> "", style |-> "", view |-> "none", text |-> "",
                    widths |-> 0, header |-> << >>, rows |-> << >>],
     submitted |-> ""]

\* App::draw that queries the text the App started with, not the current one
RenderFrameStaleQuery(a, o) ==
    [height    |-> a.query.height,
     query     |-> RenderQuery(a),
     browser   |-> RenderBrowser(a, o),
     submitted |-> DefaultText]

\* the closure of App::draw: the layout, render_query, render_browser;
\* submitted: the text given to store.query
RenderFrame(a, o) ==
    [height    |-> a.query.height,
     query     |-> RenderQuery(a),
     browser   |-> RenderBrowser(a, o),
     submitted |-> a.query.string]

----------------------------------------------------------------------------
(* The terminal *)

\* alt, raw: in the alternate screen, in raw mode; hook: the panic hook is set;
\* setups, restores: calls of setup_terminal and of restore_terminal so far;
\* disables: calls of disable_raw_mode so far
NoTerm ==
    [alt |-> FALSE, raw |-> FALSE, hook |-> FALSE,
     setups |-> 0, restores |-> 0, disables |-> 0]

RestoreResults == {"ok", "leave_err", "disable_err"}

\* restore_terminal: both commands are unwrapped, so the first failure panics
RestoreTerminal(t, r) ==
    IF r = "leave_err"
    THEN [panicked |-> TRUE,
          term     |-> [t EXCEPT !.restores = @ + 1]]
    ELSE IF r = "disable_err"
         THEN [panicked |-> TRUE,
               term     |-> [t EXCEPT !.restores = @ + 1, !.alt = FALSE,
                                       !.disables = @ + 1]]
         ELSE [panicked |-> FALSE,
               term     |-> [t EXCEPT !.restores = @ + 1, !.alt = FALSE,
                                       !.disables = @ + 1, !.raw = FALSE]]

\* a panic with no hook set
PanicWithoutHook(t, r) == [pc |-> "exit_panic", term |-> t]

\* a panic in main's thread: the hook set by setup_terminal runs restore_terminal
\* (a panic inside the hook aborts the process); without the hook nothing is restored
Panic(t, r) ==
    IF t.hook
    THEN LET res == RestoreTerminal(t, r)
         IN  [pc |-> IF res.panicked THEN "abort" ELSE "exit_panic", term |-> res.term]
    ELSE [pc |-> "exit_panic", term |-> t]

SetupResults == {"ok", "enter_err", "enable_err", "new_err"}

\* setup_terminal: the state of the terminal when it returns with result r
SetupTerminalTerm(t, r) ==
    CASE r = "enter_err"  -> [t EXCEPT !.setups = @ + 1]
      [] r = "enable_err" -> [t EXCEPT !.setups = @ + 1, !.alt = TRUE]
      [] OTHER            -> [t EXCEPT !.setups = @ + 1, !.alt = TRUE, !.raw = TRUE,
                                       !.hook = TRUE]

----------------------------------------------------------------------------
(* History of the Tab key-presses, kept to state what two of them do *)

NoTabs == [n |-> 0, origin |-> NoApp]

\* n: how many Tab key-presses (1 or 2) were dispatched last with no other
\* key-press between them; origin: the App before the first of them
TabsAfter(tb, a, ev) ==
    IF ev.type = "Key" /\ ev.key.kind = "Press"
    THEN IF ev.key.code.tag = "Tab"
         THEN IF tb.n = 1
              THEN [tb EXCEPT !.n = 2]
              ELSE [n |-> 1, origin |-> a]
         ELSE NoTabs
    ELSE tb

----------------------------------------------------------------------------
(* main *)

Init ==
    /\ pc = "setup"
    /\ path \in BOOLEAN
    /\ term = NoTerm
    /\ app = NoApp
    /\ err = "none"
    /\ frame = NoFrame
    /\ outcome = NoOutcome
    /\ event = NoEvent
    /\ typed = 0
    /\ iter = 0
    /\ tabs = NoTabs

\* let mut terminal = setup_terminal()?;
SetupTerminal ==
    /\ pc = "setup"
    /\ \E r \in SetupResults :
          /\ term' = SetupTerminalTerm(term, r)
          /\ pc' = IF r = "ok" THEN "new" ELSE "exit_err"
          /\ err' = IF r = "ok" THEN err ELSE "setup"
    /\ UNCHANGED <<path, app, frame, outcome, event, typed, iter, tabs>>

\* let mut app = App::new()?;
AppNew ==
    /\ pc = "new"
    /\ \E r \in {"ok", "store_err"} :
          IF r = "ok"
          THEN /\ app' = NewApp
               /\ pc' = IF path THEN "load" ELSE "draw"
               /\ err' = err
          ELSE /\ app' = app
               /\ pc' = "exit_err"
               /\ err' = "new"
    /\ UNCHANGED <<path, term, frame, outcome, event, typed, iter, tabs>>

LoadErrors == {"absolute_err", "to_str_err", "read_err", "base_iri_err", "parse_err"}

LoadResults == {"ok"} \cup LoadErrors

\* App::load: the store when load returns with result r
LoadApp(a, r) == IF r = "ok" THEN [a EXCEPT !.store = "loaded"] ELSE a

\* app.load(path) with its result dropped
LoadPcIgnoresError(r) == "draw"

\* app.load(path)?: where main goes when load returns with result r
LoadPc(r) == IF r = "ok" THEN "draw" ELSE "exit_err"

\* if let Some(path) = args.path { app.load(path)?; }
Load ==
    /\ pc = "load"
    /\ \E r \in LoadResults :
          /\ app' = LoadApp(app, r)
          /\ pc' = LoadPc(r)
          /\ err' = IF r = "ok" THEN err ELSE r
    /\ UNCHANGED <<path, term, frame, outcome, event, typed, iter, tabs>>

\* terminal.draw: Ok, or an io error before or after the closure has rendered
DrawResults == {"ok", "before_err", "after_err"}

\* self.draw(terminal)?: one redraw with io result io, query outcome o and,
\* if rendering panics, result r of the hook's restore_terminal
DrawWith(io, o, r) ==
    /\ pc = "draw"
    /\ event' = NoEvent
    /\ IF io = "before_err"
       THEN /\ pc' = "exit_err" /\ err' = "draw"
            /\ UNCHANGED <<term, frame, outcome>>
       ELSE IF RenderBrowserPanics(o)
       THEN /\ outcome' = o
            /\ pc' = Panic(term, r).pc
            /\ term' = Panic(term, r).term
            /\ UNCHANGED <<err, frame>>
       ELSE IF io = "after_err"
       THEN /\ outcome' = o
            /\ pc' = "exit_err" /\ err' = "draw"
            /\ UNCHANGED <<term, frame>>
       ELSE /\ outcome' = o
            /\ frame' = RenderFrame(app, o)
            /\ pc' = "handle_event"
            /\ UNCHANGED <<term, err>>
    /\ UNCHANGED <<path, app, typed, tabs>>

\* the choices of (io, o, r) tried: o is read only when the closure runs, r
\* only when it panics; a redraw whose io fails late is tried with two outcomes
DrawChoice(io, o, r) ==
    /\ io = "before_err" => o = QueryErr
    /\ io = "after_err" => o \in {QueryErr, QuerySolutions(<<"s">>, << >>)}
    /\ (io = "before_err" \/ ~RenderBrowserPanics(o)) => r = "ok"

\* the redraw of one iteration, the engine free to give any outcome
Draw ==
    /\ iter < MaxIter
    /\ iter' = iter + 1
    /\ \E io \in DrawResults, o \in QueryOutcomes, r \in RestoreResults :
          DrawChoice(io, o, r) /\ DrawWith(io, o, r)

\* what the engine gives in SpecEdit: an error, or solutions without rows
EditOutcomes == {QueryErr, QuerySolutions(<<"s", "p">>, << >>)}

\* the redraw of one iteration in SpecEdit, which does not count iterations
DrawEdit ==
    /\ iter' = iter
    /\ \E io \in DrawResults, o \in EditOutcomes, r \in RestoreResults :
          DrawChoice(io, o, r) /\ DrawWith(io, o, r)

\* run without the quitting check
AfterEventPcNeverBreaks(a) == "draw"

\* where run goes after handle_event returned Ok: the quitting check
AfterEventPc(a) == IF a.quitting THEN "restore" ELSE "draw"

\* self.handle_event()? and the quitting check, for input ev; checks: whether
\* the build panics on integer overflow; r: result of the hook's restore_terminal
HandleEventWith(ev, checks, r) ==
    LET ch == IF ev.type = "Key" THEN PushedChar(app, ev.key) ELSE None
    IN  /\ pc = "handle_event"
        /\ ch.some => typed < MaxTyped
        /\ event' = ev
        /\ outcome' = NoOutcome
        /\ typed' = IF ch.some THEN typed + 1 ELSE typed
        /\ IF ev.type \in {"PollErr", "ReadErr"}
           THEN /\ pc' = "exit_err"
                /\ err' = IF ev.type = "PollErr" THEN "poll" ELSE "read"
                /\ UNCHANGED <<app, term, tabs>>
           ELSE IF ch.some /\ PushOverflows(app.query, ch.val) /\ checks
           THEN /\ app' = [app EXCEPT !.query.string = Append(@, ch.val)]
                /\ pc' = Panic(term, r).pc
                /\ term' = Panic(term, r).term
                /\ UNCHANGED <<err, tabs>>
           ELSE /\ app' = HandleEventApp(app, ev)
                /\ pc' = AfterEventPc(app')
                /\ tabs' = TabsAfter(tabs, app, ev)
                /\ UNCHANGED <<err, term>>
        /\ UNCHANGED <<path, frame, iter>>

\* one choice of (checks, r) where they are not read: they are only when a
\* push overflows the height
EventChoice(ev, checks, r) ==
    LET ch == IF ev.type = "Key" THEN PushedChar(app, ev.key) ELSE None
    IN  ~(ch.some /\ PushOverflows(app.query, ch.val)) => (checks /\ r = "ok")

HandleEvent ==
    \E ev \in Events, checks \in BOOLEAN, r \in RestoreResults :
        EventChoice(ev, checks, r) /\ HandleEventWith(ev, checks, r)

\* restore_terminal(); Ok(())  at the end of main; r2: result of the hook's
\* restore_terminal when the first one panics
MainRestore ==
    /\ pc = "restore"
    /\ \E r \in RestoreResults, r2 \in RestoreResults :
          LET res == RestoreTerminal(term, r)
          IN  IF res.panicked
              THEN /\ pc' = Panic(res.term, r2).pc
                   /\ term' = Panic(res.term, r2).term
              ELSE /\ pc' = "exit_ok"
                   /\ term' = res.term
    /\ UNCHANGED <<path, app, err, frame, outcome, event, typed, iter, tabs>>

Next ==
    \/ SetupTerminal
    \/ AppNew
    \/ Load
    \/ Draw
    \/ HandleEvent
    \/ MainRestore

Spec == Init /\ [][Next]_vars

\* The program started without a path argument, the engine giving one of
\* EditOutcomes, for any number of iterations
InitEdit == Init /\ path = FALSE

NextEdit ==
    \/ SetupTerminal
    \/ AppNew
    \/ DrawEdit
    \/ HandleEvent
    \/ MainRestore

SpecEdit == InitEdit /\ [][NextEdit]_vars

\* The program late in a session: the user went to Query mode and pressed
\* Enter until height reached the largest u16; the last Enter was dispatched and
\* run is about to redraw
TallNewlines == U16 - 1 - DefaultHeight

\* n times Enter
RECURSIVE NewLines(_)
NewLines(n) ==
    IF n = 0
    THEN ""
    ELSE IF n % 2 = 0
         THEN LET half == NewLines(n \div 2) IN half \o half
         ELSE Append(NewLines(n - 1), NewLine)

TallQuery ==
    [string |-> DefaultText \o NewLines(TallNewlines),
     height |-> DefaultHeight + TallNewlines]

TallApp == [NewApp EXCEPT !.mode = "Query", !.query = TallQuery]

InitTall ==
    /\ pc = "draw"
    /\ path = FALSE
    /\ term = SetupTerminalTerm(NoTerm, "ok")
    /\ app = TallApp
    /\ err = "none"
    /\ frame = RenderFrame([TallApp EXCEPT !.query = Pop(TallQuery).query], QueryErr)
    /\ outcome = NoOutcome
    /\ event = KeyEvent("Press", Code("Enter", ""))
    /\ typed = 0
    /\ iter = 0
    /\ tabs = NoTabs

\* the redraw of one iteration in SpecTall, the engine giving one of EditOutcomes
DrawTall ==
    /\ iter < MaxIter
    /\ iter' = iter + 1
    /\ \E io \in DrawResults, o \in EditOutcomes, r \in RestoreResults :
          DrawChoice(io, o, r) /\ DrawWith(io, o, r)

NextTall ==
    \/ DrawTall
    \/ HandleEvent
    \/ MainRestore

SpecTall == InitTall /\ [][NextTall]_vars

----------------------------------------------------------------------------
(* The claims *)

Press(code) == KeyEvent("Press", code)

BackspaceKey == Code("Backspace", "")

EnterKey == Code("Enter", "")

TabKey == Code("Tab", "")

CountNewlines(str) ==
    Cardinality({i \in 1..Len(str) : SubSeq(str, i, i) = NewLine})

\* App::new has run
Constructed == app.mode # "none"

\* C1: once the App is constructed, after every key handled the height of
\* the query is 3 plus the number of newlines in its string; it is never below
\* 3, and where the string ends with a newline, so that pop would decrement,
\* the height is above 0 and the decrement does not underflow.
HeightCountsNewlines ==
    Constructed =>
        /\ app.query.height = DefaultHeight + CountNewlines(app.query.string)
        /\ app.query.height >= DefaultHeight
        /\ Pop(app.query).query.height =
               DefaultHeight + CountNewlines(Pop(app.query).query.string)

\* a Backspace has just popped the second of two newlines: height 5 was drawn,
\* and the height is now 4
HeightCountsNewlinesWitness ==
    /\ pc = "draw"
    /\ event = Press(BackspaceKey)
    /\ frame.height = DefaultHeight + 2
    /\ CountNewlines(frame.query.text) = 2
    /\ app.query.height = DefaultHeight + 1
    /\ CountNewlines(app.query.string) = 1

\* C2: pop on an empty string returns None and leaves string and height as
\* they are; a Backspace key-press in Query mode on an empty string changes
\* nothing of the App, and run goes on to the next redraw.
PopOnEmptyChangesNothing ==
    [][(/\ pc = "handle_event"
        /\ app.mode = "Query"
        /\ app.query.string = ""
        /\ event' = Press(BackspaceKey))
       => (/\ Pop(app.query).ch = None
           /\ Pop(app.query).query = app.query
           /\ app' = app
           /\ app'.query.string = ""
           /\ pc' = "draw"
           /\ err' = err)]_vars

\* the frame showed an empty query in Query mode, Backspace was pressed, and the
\* query is empty
PopOnEmptyWitness ==
    /\ pc = "draw"
    /\ event = Press(BackspaceKey)
    /\ frame.query.text = ""
    /\ frame.query.style = "green"
    /\ app.mode = "Query"
    /\ app.query.string = ""
    /\ app.query.height = DefaultHeight

\* C3: in Query mode a key-press of 'q' does not set quitting and appends
\* 'q' to the string; in Browse mode no key-press, of any key code, changes
\* the string or the height.
QuitKeyOnlyInBrowseMode ==
    [][(/\ pc = "handle_event"
        /\ event'.type = "Key"
        /\ event'.key.kind = "Press")
       => (/\ (app.mode = "Query" /\ event'.key.code = Code("Char", "q"))
                 => (/\ ~app'.quitting
                     /\ app'.query.string = Append(app.query.string, "q")
                     /\ pc' = "draw")
           /\ app.mode = "Browse" => app'.query = app.query)]_vars

\* 'q' was pressed in Query mode: the session goes on, the string ends with q
QuitKeyInQueryModeWitness ==
    /\ pc = "draw"
    /\ event = Press(Code("Char", "q"))
    /\ app.mode = "Query"
    /\ ~app.quitting
    /\ frame.query.style = "green"
    /\ app.query.string = Append(frame.query.text, "q")

\* C4: switch_mode twice gives the mode back, and after two Tab
\* key-presses with no other key-press between them the App (mode, string,
\* height, quitting) is what it was before them, and so is the border style
\* of each pane.
TabTwiceRestoresMode ==
    /\ Constructed => SwitchMode(SwitchMode(app)) = app
    /\ tabs.n = 2 =>
          /\ app = tabs.origin
          /\ GetQueryStyle(app) = GetQueryStyle(tabs.origin)
          /\ GetBrowserStyle(app) = GetBrowserStyle(tabs.origin)

\* two Tab key-presses were handled one after the other, starting in Browse mode
TabTwiceWitness ==
    /\ pc = "draw"
    /\ tabs.n = 2
    /\ tabs.origin.mode = "Browse"
    /\ event = Press(TabKey)
    /\ app.mode = "Browse"

\* an input handle_event does not act on in mode m
Unhandled(ev, m) ==
    \/ ev.type \in {"Timeout", "Other"}
    \/ /\ ev.type = "Key"
       /\ \/ ev.key.kind # "Press"
          \/ ev.key.code.tag = "Esc"
          \/ /\ m = "Browse"
             /\ \/ ev.key.code.tag \in {"Backspace", "Enter"}
                \/ ev.key.code.tag = "Char" /\ ev.key.code.ch # "q"

\* C5: a timeout of the poll, an event that is no key event, a key event
\* that is no press, and a key-press of a code the mode does not list leave the
\* App (string, height, mode, quitting) as it is and give no error: run goes
\* on to the next redraw.
UnhandledInputChangesNothing ==
    [][(pc = "handle_event" /\ Unhandled(event', app.mode))
       => (/\ app' = app
           /\ err' = err
           /\ term' = term
           /\ pc' = "draw")]_vars

\* the release of 'q' in Browse mode was handled: the session did not quit
UnhandledInputWitness ==
    /\ pc = "draw"
    /\ event = KeyEvent("Release", Code("Char", "q"))
    /\ app.mode = "Browse"
    /\ ~app.quitting
    /\ err = "none"

\* main has ended: by returning Ok, by returning an error, by a panic whose
\* hook returned, or by a panic inside the hook
Ended == pc \in {"exit_ok", "exit_err", "exit_panic", "abort"}

\* C6: setup_terminal runs once, before the loop: from App::new to the
\* end of run the terminal is in the alternate screen and in raw mode, the hook
\* is set and nothing has been restored yet. When main ends by the normal quit
\* or by a panic, restore_terminal has been executed; where it ran to its end
\* the terminal has left the alternate screen and raw mode.
TerminalRestoredOnQuitAndPanic ==
    /\ pc \in {"new", "load", "draw", "handle_event", "restore"} =>
          /\ term.setups = 1
          /\ term.alt /\ term.raw /\ term.hook
          /\ term.restores = 0
    /\ pc \in {"exit_ok", "exit_panic", "abort"} =>
          /\ term.setups = 1
          /\ term.restores >= 1
    /\ pc \in {"exit_ok", "exit_panic"} => ~term.alt /\ ~term.raw

\* a redraw panicked, the hook ran restore_terminal, and the process ended
\* with the terminal restored
PanicRestoredWitness ==
    /\ pc = "exit_panic"
    /\ ~app.quitting
    /\ term.restores = 1
    /\ ~term.alt /\ ~term.raw

\* C7: on every path by which main ends after setup_terminal returned Ok
\* the terminal has been restored.
TerminalRestoredOnEveryExit ==
    (Ended /\ err # "setup") => (term.restores >= 1 /\ ~term.alt /\ ~term.raw)

\* C8: with a path argument the store is loaded before the loop starts,
\* and when load fails main ends with that error: no frame was drawn, no input
\* was polled, no iteration of the loop was started.
LoadFailureEndsBeforeLoop ==
    /\ (path /\ pc \in {"draw", "handle_event", "restore", "exit_ok"}) =>
          app.store = "loaded"
    /\ (path /\ frame # NoFrame) => app.store = "loaded"
    /\ err \in LoadErrors =>
          /\ pc = "exit_err"
          /\ frame = NoFrame
          /\ event = NoEvent
          /\ iter = 0

\* load failed to parse the file and main ended with that error before any frame
LoadFailureWitness ==
    /\ path
    /\ err = "parse_err"
    /\ pc = "exit_err"
    /\ frame = NoFrame
    /\ app.store = "empty"

\* the query gave an error or a result that is not solutions
QueryFailed(o) == o.tag \in {"Err", "Boolean", "Graph"}

\* C9: a redraw in which the query gives an error or a result that is
\* not solutions never panics and changes nothing of the App; unless the
\* terminal's own io fails, the frame drawn shows NO RESULT in the bottom pane,
\* draw returns Ok and run goes on to handle_event.
QueryFailureIsNotFatal ==
    [][(pc = "draw" /\ QueryFailed(outcome'))
       => (/\ app' = app
           /\ term' = term
           /\ pc' \notin {"exit_panic", "abort"}
           /\ \A io \in DrawResults, r \in RestoreResults :
                 (io = "ok" /\ DrawWith(io, outcome', r))
                 => (/\ frame'.browser.view = "Paragraph"
                     /\ frame'.browser.text = "NO RESULT"
                     /\ frame'.browser.rows = << >>
                     /\ pc' = "handle_event"
                     /\ err' = err)
           /\ pc' # "handle_event" => (pc' = "exit_err" /\ err' = "draw"))]_vars

\* the query failed, a frame with NO RESULT was drawn and run is about to poll
QueryFailureWitness ==
    /\ pc = "handle_event"
    /\ outcome = QueryErr
    /\ frame.browser.view = "Paragraph"
    /\ frame.browser.text = "NO RESULT"
    /\ err = "none"
    /\ ~app.quitting

IsOk(s) == s.ok

\* C10: the frame drawn for a query that gives solutions shows the table:
\* the header holds the names of the variables, and there is one row for each
\* solution the engine yielded, in the engine's order, with one cell for each
\* variable; this also where there is no solution. Every other outcome shows
\* the paragraph.
TableForEverySolutions ==
    pc = "handle_event" =>
        IF outcome.tag = "Solutions"
        THEN LET yielded == SelectSeq(outcome.solutions, IsOk)
                 n == Len(outcome.variables)
             IN  /\ frame.browser.view = "Table"
                 /\ frame.browser.text = ""
                 /\ Len(frame.browser.header) = n
                 /\ \A j \in 1..n :
                       frame.browser.header[j] = VariableToString(outcome.variables[j])
                 /\ Len(frame.browser.rows) = Len(yielded)
                 /\ \A i \in 1..Len(yielded) :
                       /\ Len(frame.browser.rows[i]) = n
                       /\ \A j \in 1..n :
                             frame.browser.rows[i][j] =
                                 TermToString(yielded[i].b[outcome.variables[j]])
        ELSE frame.browser.view = "Paragraph"

\* the query gave solutions, none of them, and a table with its header and no
\* row was drawn
EmptyTableWitness ==
    /\ pc = "handle_event"
    /\ outcome = QuerySolutions(<<"s", "p">>, << >>)
    /\ frame.browser.view = "Table"
    /\ frame.browser.header = <<"?s", "?p">>
    /\ frame.browser.rows = << >>

\* main ended by a panic
Panicked == {"exit_panic", "abort"}

\* C11: an iteration of run is a redraw from the App as it is, then one
\* poll with the dispatch of at most one event, then the quitting check: after
\* the redraw comes handle_event, after handle_event comes the next redraw if
\* quitting is not set and the return of run if it is. run returns Ok only
\* with quitting set, and once quitting is set nothing is drawn, polled or
\* dispatched any more.
LoopOrder ==
    [][/\ pc = "draw" =>
             /\ pc' \in {"handle_event", "exit_err"} \cup Panicked
             /\ pc' = "handle_event" =>
                   (frame' = RenderFrame(app, outcome') /\ event' = NoEvent)
       /\ pc = "handle_event" =>
             /\ event' # NoEvent
             /\ frame' = frame
             /\ pc' \in {"draw", "restore", "exit_err"} \cup Panicked
             /\ pc' \in {"draw", "restore"} => app' = HandleEventApp(app, event')
             /\ pc' = "draw" => ~app'.quitting
             /\ app'.quitting => pc' = "restore"
       /\ pc' \in {"restore", "exit_ok"} => app'.quitting
       /\ app.quitting =>
             /\ pc' \notin {"draw", "handle_event"}
             /\ frame' = frame /\ event' = event /\ app' = app]_vars

\* 'q' was pressed in Browse mode after a redraw, run returned and main ended
LoopOrderWitness ==
    /\ pc = "exit_ok"
    /\ app.quitting
    /\ event = Press(Code("Char", "q"))
    /\ frame # NoFrame
    /\ iter >= 1

\* C12: in every frame drawn exactly one border is highlighted: that of
\* the Query pane iff the mode is Query, that of the Explore pane iff the mode
\* is Browse; what is drawn inside the panes is the same in the other mode.
OneBorderHighlighted ==
    /\ frame # NoFrame =>
          (frame.query.style = "green") # (frame.browser.style = "green")
    /\ pc = "handle_event" =>
          /\ frame.query.style = "green" <=> app.mode = "Query"
          /\ frame.browser.style = "green" <=> app.mode = "Browse"
          /\ [RenderQuery(SwitchMode(app)) EXCEPT !.style = frame.query.style]
                = frame.query
          /\ [RenderBrowser(SwitchMode(app), outcome) EXCEPT
                 !.style = frame.browser.style] = frame.browser
          /\ RenderFrame(SwitchMode(app), outcome).height = frame.height

\* a frame drawn in Query mode: the Query pane highlighted, the Explore pane
\* not, with a table of one row
QueryBorderWitness ==
    /\ pc = "handle_event"
    /\ app.mode = "Query"
    /\ frame.query.style = "green"
    /\ frame.browser.style = "default"
    /\ frame.browser.view = "Table"
    /\ Len(frame.browser.rows) = 1

\* C13: every redraw gives the current string of the query to the engine
\* and draws its outcome in the same frame: in every frame the text submitted
\* is the text shown in the top pane, a frame just drawn shows the current
\* string and the outcome of this redraw, and so the frame after a key-press
\* that changed the string shows the new string and its outcome.
FrameShowsCurrentQuery ==
    /\ frame.submitted = frame.query.text
    /\ pc = "handle_event" =>
          /\ frame.query.text = app.query.string
          /\ frame.submitted = app.query.string
          /\ frame.height = app.query.height
          /\ outcome # NoOutcome
          /\ frame.browser = RenderBrowser(app, outcome)

\* the frame drawn after 'q' was typed in Query mode: it shows the new string,
\* which is the text submitted
FrameAfterEditWitness ==
    /\ pc = "handle_event"
    /\ app.query.string = Append(DefaultText, "q")
    /\ frame.query.text = Append(DefaultText, "q")
    /\ frame.submitted = Append(DefaultText, "q")
    /\ outcome = QueryErr
    /\ frame.browser.view = "Paragraph"

\* C14: a frame drawn from solutions of which one is an error shows
\* NO RESULT, not a table of the other rows.
ErrorDuringIterationIsNoResult ==
    (/\ pc = "handle_event"
     /\ outcome.tag = "Solutions"
     /\ \E i \in 1..Len(outcome.solutions) : ~IsOk(outcome.solutions[i]))
    => frame.browser.view = "Paragraph"

\* the engine yielded a solution that has no value for a declared variable
HasMissing(o) ==
    /\ o.tag = "Solutions"
    /\ \E i \in 1..Len(o.solutions) :
          /\ IsOk(o.solutions[i])
          /\ \E j \in 1..Len(o.variables) :
                o.solutions[i].b[o.variables[j]] = Unbound

\* C15: a redraw whose solutions lack a value for a declared variable
\* panics: the hook runs restore_terminal and main ends without another step
\* of the loop; and no frame shows a table with a row shorter than the header
\* or with a cell that stands for a missing value.
MissingBindingIsFatal ==
    /\ HasMissing(outcome) =>
          /\ pc \in Panicked
          /\ term.hook
          /\ term.restores >= 1
          /\ frame # RenderFrame(app, outcome)
    /\ (frame # NoFrame /\ frame.browser.view = "Table") =>
          \A i \in 1..Len(frame.browser.rows) :
             /\ Len(frame.browser.rows[i]) = Len(frame.browser.header)
             /\ \A j \in 1..Len(frame.browser.rows[i]) :
                   frame.browser.rows[i][j] \notin
                       {"", TermToString(""), TermToString(Unbound)}

\* the engine yielded a solution without ?p for the variables ?s ?p: the draw
\* panicked, the hook restored the terminal
MissingBindingWitness ==
    /\ pc = "exit_panic"
    /\ outcome.tag = "Solutions"
    /\ outcome.variables = <<"s", "p">>
    /\ \E i \in 1..Len(outcome.solutions) :
          outcome.solutions[i] = OkSolution(Binding("c", Unbound))
    /\ term.restores = 1
    /\ ~term.raw

\* C16: a key-press in Query mode: Enter appends a newline to the
\* string, Char(c) appends c, Backspace on a string that is not empty removes
\* its last character; the rest of the string, the mode and quitting stay, and
\* height moves by one exactly when the character is a newline.
QueryKeysEditText ==
    [][(pc = "handle_event" /\ app.mode = "Query") =>
         LET old == app.query.string
             new == app'.query.string
             same == /\ app'.mode = app.mode
                     /\ app'.quitting = app.quitting
                     /\ app'.store = app.store
         IN  /\ event' = Press(EnterKey) =>
                   /\ new = Append(old, NewLine)
                   /\ app'.query.height = app.query.height + 1
                   /\ same
             /\ \A c \in Chars :
                   event' = Press(Code("Char", c)) =>
                      /\ new = Append(old, c)
                      /\ app'.query.height = app.query.height
                      /\ same
             /\ (event' = Press(BackspaceKey) /\ old # "") =>
                   /\ new = SubSeq(old, 1, Len(old) - 1)
                   /\ app'.query.height =
                         (IF SubSeq(old, Len(old), Len(old)) = NewLine
                          THEN app.query.height - 1
                          ELSE app.query.height)
                   /\ same]_vars

\* Enter was pressed in Query mode after a frame was drawn: the string is the
\* one the frame shows followed by a newline, height is one more
EnterAppendsNewlineWitness ==
    /\ pc = "draw"
    /\ event = Press(EnterKey)
    /\ app.mode = "Query"
    /\ app.query.string = Append(frame.query.text, NewLine)
    /\ app.query.height = frame.height + 1

\* C17: the mode of a constructed App changes only in a handle_event
\* step that reads a Tab key-press, and then to the other mode; a Tab key-press
\* read in either mode flips the mode and leaves the query and quitting alone.
ModeChangesOnlyByTab ==
    [][/\ (Constructed /\ app'.mode # app.mode) =>
             /\ pc = "handle_event"
             /\ event' = Press(TabKey)
             /\ {app.mode, app'.mode} = {"Query", "Browse"}
       /\ (pc = "handle_event" /\ event' = Press(TabKey)) =>
             /\ app'.mode # app.mode
             /\ app' = [app EXCEPT !.mode = app'.mode]]_vars

\* Tab was pressed after a frame drawn in Browse mode: the mode is Query
TabFlipsModeWitness ==
    /\ pc = "draw"
    /\ event = Press(TabKey)
    /\ app.mode = "Query"
    /\ frame.browser.style = "green"
    /\ app.query = QueryNew
    /\ ~app.quitting

\* C18: every run of restore_terminal attempts to disable raw mode,
\* also when leaving the alternate screen fails.
TeardownAlwaysDisablesRawMode == term.disables = term.restores

\* C19: however many newlines were appended in Query mode, height is
\* 3 plus the number of newlines in the string: the u16 neither wraps nor
\* panics on the next Enter.
TallHeightExact ==
    app.query.height = DefaultHeight + CountNewlines(app.query.string)

\* C20: App::new gives Browse mode with quitting unset; quitting is set
\* only in Browse mode, by the key-press 'q' read in Browse mode, and the mode
\* stays Browse with it; once set, quitting stays set.
QuittingOnlyFromBrowse ==
    [][/\ (pc = "new" /\ pc' = "draw") =>
             (app'.mode = "Browse" /\ ~app'.quitting)
       /\ app'.quitting => app'.mode = "Browse"
       /\ app.quitting => app'.quitting
       /\ (~app.quitting /\ app'.quitting) =>
             /\ pc = "handle_event"
             /\ app.mode = "Browse"
             /\ event' = Press(Code("Char", "q"))]_vars

\* the session ended normally after text was typed in Query mode: the last
\* key-presses were Tab, back to Browse mode, and then 'q'
QuitAfterEditWitness ==
    /\ pc = "exit_ok"
    /\ app.quitting
    /\ app.mode = "Browse"
    /\ typed >= 1
    /\ app.query.string = Append(DefaultText, "a")
    /\ event = Press(Code("Char", "q"))

====
